---- MODULE Spec2Model ----
(***************************************************************************)
(* Model of hw/cortexm/stm32-mcu.c: the STM32 MCU device of QEMU           *)
(* (GNU ARM Eclipse fork).  The device's realize callback composes the     *)
(* on-chip peripherals from a capabilities descriptor; its reset callback  *)
(* forwards a reset to the children it holds.                              *)
(*                                                                         *)
(* Each callback is one action.  A callback's body is a chain of operators *)
(* over a machine record m = [status, st, objs, regions, bitbands, chrs,   *)
(* log]:                                                                   *)
(*   status  "run", "returned" (early return) or "aborted" (assert or      *)
(*           hw_error ended the process),                                  *)
(*   st      the STM32MCUState fields,                                     *)
(*   objs    the QOM children allocated so far, in allocation order; an    *)
(*           object reference is a position in objs and NULL is 0,         *)
(*   regions the memory regions this device created,                       *)
(*   bitbands the bit-band devices this device created,                    *)
(*   chrs    the character streams qemu_chr_new created,                   *)
(*   mem     the descriptor record a non-null capabilities pointer refers  *)
(*           to,                                                           *)
(*   log     the calls made, in program order.                             *)
(***************************************************************************)
EXTENDS Integers, Sequences, FiniteSets, TLC

VARIABLES
    pc,                 \* lifecycle of the device instance
    state,              \* STM32MCUState
    objects,            \* QOM children, by reference
    regions,            \* memory regions created by the device
    bitbands,           \* bit-band devices created by the device
    chardevs,           \* character streams created by the device
    trace,              \* calls made by the realize callback, in order
    reset_trace,        \* calls made by the latest reset callback, in order
    resets,             \* number of reset events delivered
    descriptor,         \* the STM32Capabilities record param_capabilities may point to
    parent_ok,          \* whether cm_device_parent_realize succeeds
    flash_size_kb,      \* CortexMState.flash_size_kb
    flash_image,        \* contents of CortexMState.flash_mem
    max_serial_ports,   \* MAX_SERIAL_PORTS of the host build
    serial_hds,         \* the host's backing streams, 0 .. MAX_SERIAL_PORTS-1
    chr_unavailable     \* stream labels for which qemu_chr_new returns NULL

vars == <<pc, state, objects, regions, bitbands, chardevs, trace, reset_trace, resets,
          descriptor, parent_ok, flash_size_kb, flash_image,
          max_serial_ports, serial_hds, chr_unavailable>>

host == <<descriptor, parent_ok, flash_size_kb, flash_image,
          max_serial_ports, serial_hds, chr_unavailable>>

(***************************************************************************)
(* Bounds of the model.                                                    *)
(***************************************************************************)
MaxResets == 2
MaxFlashKb == 2
MaxHostPorts == 6

(***************************************************************************)
(* Program constants.                                                      *)
(***************************************************************************)
NULL == 0
CAPS_PTR == 1                       \* address of the descriptor record
NVIC_PTR == 1                       \* parent_obj.nvic
STM32_MAX_GPIO == 7
STM32_MAX_USART == 6
FLASH_ALIAS_BASE == 134217728       \* 0x08000000
PERIPH_BITBAND_BASE == 1073741824   \* 0x40000000
KB == 1024
CHILD_NAME_SIZE == 10               \* char child_name[10]
CHARDEV_NAME_SIZE == 10             \* char chardev_name[10]

STM32_GPIO_PORT_A == 0
STM32_GPIO_PORT_B == 1
STM32_GPIO_PORT_C == 2
STM32_GPIO_PORT_D == 3
STM32_GPIO_PORT_E == 4
STM32_GPIO_PORT_F == 5
STM32_GPIO_PORT_G == 6

STM32_USART_1 == 0
STM32_USART_2 == 1
STM32_USART_3 == 2
STM32_UART_4 == 3
STM32_UART_5 == 4
STM32_USART_6 == 5

GpioIndex == 0 .. STM32_MAX_GPIO - 1
UsartIndex == 0 .. STM32_MAX_USART - 1

\* The characters 'a' + index and '1' + index, for the indexes in use.
LowerCase == <<"a", "b", "c", "d", "e", "f", "g", "h", "i", "j">>
Digits == <<"0", "1", "2", "3", "4", "5", "6", "7", "8", "9">>

CharFrom_a(index) == LowerCase[index + 1]
CharFrom_1(index) == Digits[index + 2]
FormatInt(n) == Digits[n + 1]

\* snprintf(buf, size, ...): at most size-1 characters are kept.
snprintf(size, text) ==
    IF Len(text) < size THEN text ELSE SubSeq(text, 1, size - 1)

(***************************************************************************)
(* Character streams.                                                      *)
(***************************************************************************)
NoChr == [kind |-> "none", label |-> ""]
HostChr(index) == [kind |-> "host", label |-> "hd" \o FormatInt(index)]
NullChr(label) == [kind |-> "null", label |-> label]

(***************************************************************************)
(* Events of the logs.                                                     *)
(***************************************************************************)
Ev(op, who, arg, idx) == [op |-> op, who |-> who, arg |-> arg, idx |-> idx]

Emit(m, e) == [m EXCEPT !.log = Append(@, e)]

Abort(m) == [m EXCEPT !.status = "aborted"]

\* hw_error(): report the error and end the process.
hw_error(m, who, text) == Abort(Emit(m, Ev("hw_error", who, text, -1)))

(***************************************************************************)
(* QOM helpers of hw/cortexm/helper.c, as the callbacks use them.          *)
(***************************************************************************)
NoProps == [p \in {} |-> 0]

\* cm_object_new(container, name, type): a new child of the container.
cm_object_new(m, name, type) ==
    Emit([m EXCEPT !.objs = Append(@, [name     |-> name,
                                       type     |-> type,
                                       parent   |-> m.st.container,
                                       props    |-> NoProps,
                                       chardev  |-> NoChr,
                                       realized |-> FALSE,
                                       nresets  |-> 0])],
         Ev("new", name, type, Len(m.objs) + 1))

\* object_property_set_int, cm_object_property_set_int, qdev_prop_set_ptr.
prop_set(m, obj, prop, value) ==
    Emit([m EXCEPT !.objs[obj].props = (prop :> value) @@ @],
         Ev("set", m.objs[obj].name, prop, obj))

\* qdev_prop_set_chr(dev, "chardev", chr)
qdev_prop_set_chr(m, obj, chr) ==
    Emit([m EXCEPT !.objs[obj].chardev = chr],
         Ev("set", m.objs[obj].name, "chardev", obj))

\* cm_object_realize(obj)
cm_object_realize(m, obj) ==
    Emit([m EXCEPT !.objs[obj].realized = TRUE],
         Ev("realize", m.objs[obj].name, "", obj))

\* qemu_chr_new(label, filename, init): the stream it returns, NULL on failure.
qemu_chr_new_result(label, filename) ==
    IF label \in chr_unavailable THEN NoChr ELSE [kind |-> filename, label |-> label]

qemu_chr_new(m, label, filename) ==
    LET chr == qemu_chr_new_result(label, filename)
    IN  Emit([m EXCEPT !.chrs = IF chr = NoChr THEN @ ELSE Append(@, chr)],
             Ev("qemu_chr_new", label, filename, -1))

(***************************************************************************)
(* create_gpio: a child GPIO node named "gpio[%c]".                        *)
(***************************************************************************)
gpio_child_name(index) ==
    snprintf(CHILD_NAME_SIZE, "gpio[" \o CharFrom_a(index) \o "]")

\* Variant: the GPIO child realized before the clock controller is injected.
create_gpio_early_realize(m, index, capabilities) ==
    LET child_name == gpio_child_name(index)
        m1 == cm_object_new(m, child_name, "TYPE_STM32_GPIO")
        gpio == Len(m1.objs)
        m2 == prop_set(m1, gpio, "port-index", index)
        m3 == prop_set(m2, gpio, "capabilities", capabilities)
        m4 == cm_object_realize(m3, gpio)
        m5 == prop_set(m4, gpio, "rcc", m4.st.rcc)
    IN  Emit([m5 EXCEPT !.st.gpio[index] = gpio],
             Ev("store", child_name, "gpio", index))

create_gpio(m, index, capabilities) ==
    LET child_name == gpio_child_name(index)
        m1 == cm_object_new(m, child_name, "TYPE_STM32_GPIO")
        gpio == Len(m1.objs)
        m2 == prop_set(m1, gpio, "port-index", index)
        m3 == prop_set(m2, gpio, "capabilities", capabilities)
        m4 == prop_set(m3, gpio, "rcc", m3.st.rcc)
        m5 == cm_object_realize(m4, gpio)
    IN  Emit([m5 EXCEPT !.st.gpio[index] = gpio],
             Ev("store", child_name, "gpio", index))

(***************************************************************************)
(* create_usart: a child USART/UART node named "usart[%c]", bound to the   *)
(* host's stream for its index or to a new "null" stream.                  *)
(***************************************************************************)
\* Variant: the serial children numbered from '0'.
usart_child_name_from_0(index) ==
    snprintf(CHILD_NAME_SIZE, "usart[" \o FormatInt(index) \o "]")

usart_child_name(index) ==
    snprintf(CHILD_NAME_SIZE, "usart[" \o CharFrom_1(index) \o "]")

\* Variant: the discard streams numbered like the ports, from 1.
usart_chardev_name_from_1(index) ==
    snprintf(CHARDEV_NAME_SIZE, "serial" \o CharFrom_1(index))

usart_chardev_name(index) ==
    snprintf(CHARDEV_NAME_SIZE, "serial" \o FormatInt(index))

\* Variant: a port the host cannot back is reported and skipped, and the
\* composition goes on.
create_usart_skip_out_of_range(m, index, capabilities) ==
    LET child_name == usart_child_name(index)
        m1 == cm_object_new(m, child_name, "TYPE_STM32_USART")
        usart == Len(m1.objs)
        m2 == prop_set(m1, usart, "port-index", index)
        m3 == prop_set(m2, usart, "capabilities", capabilities)
        m4 == prop_set(m3, usart, "rcc", m3.st.rcc)
        m5 == prop_set(m4, usart, "nvic", NVIC_PTR)
    IN  IF index >= max_serial_ports
        THEN Emit(m5, Ev("hw_error", child_name, "Cannot assign usart", -1))
        ELSE
        LET m6 == Emit(m5, Ev("serial_hds", child_name, "", index))
            hd == serial_hds[index]
            chardev_name == usart_chardev_name(index)
            m7 == IF hd = NoChr THEN qemu_chr_new(m6, chardev_name, "null") ELSE m6
            chr == IF hd = NoChr THEN qemu_chr_new_result(chardev_name, "null") ELSE hd
        IN  IF chr = NoChr
            THEN hw_error(m7, child_name, "Can't assign serial port")
            ELSE
            LET m8 == qdev_prop_set_chr(m7, usart, chr)
                m9 == cm_object_realize(m8, usart)
            IN  Emit([m9 EXCEPT !.st.usart[index] = usart],
                     Ev("store", child_name, "usart", index))

\* Variant: a missing backing stream is reported and the port is composed
\* all the same.
create_usart_report_only(m, index, capabilities) ==
    LET child_name == usart_child_name(index)
        m1 == cm_object_new(m, child_name, "TYPE_STM32_USART")
        usart == Len(m1.objs)
        m2 == prop_set(m1, usart, "port-index", index)
        m3 == prop_set(m2, usart, "capabilities", capabilities)
        m4 == prop_set(m3, usart, "rcc", m3.st.rcc)
        m5 == prop_set(m4, usart, "nvic", NVIC_PTR)
    IN  IF index >= max_serial_ports
        THEN hw_error(m5, child_name, "Cannot assign usart")
        ELSE
        LET m6 == Emit(m5, Ev("serial_hds", child_name, "", index))
            hd == serial_hds[index]
            chardev_name == usart_chardev_name(index)
            m7 == IF hd = NoChr THEN qemu_chr_new(m6, chardev_name, "null") ELSE m6
            chr == IF hd = NoChr THEN qemu_chr_new_result(chardev_name, "null") ELSE hd
            m8 == IF chr = NoChr
                  THEN Emit(m7, Ev("hw_error", child_name, "Can't assign serial port", -1))
                  ELSE m7
            m9 == qdev_prop_set_chr(m8, usart, chr)
            m10 == cm_object_realize(m9, usart)
        IN  Emit([m10 EXCEPT !.st.usart[index] = usart],
                 Ev("store", child_name, "usart", index))

\* Variant: the result of qemu_chr_new is bound without being looked at.
create_usart_unchecked_stream(m, index, capabilities) ==
    LET child_name == usart_child_name(index)
        m1 == cm_object_new(m, child_name, "TYPE_STM32_USART")
        usart == Len(m1.objs)
        m2 == prop_set(m1, usart, "port-index", index)
        m3 == prop_set(m2, usart, "capabilities", capabilities)
        m4 == prop_set(m3, usart, "rcc", m3.st.rcc)
        m5 == prop_set(m4, usart, "nvic", NVIC_PTR)
    IN  IF index >= max_serial_ports
        THEN hw_error(m5, child_name, "Cannot assign usart")
        ELSE
        LET m6 == Emit(m5, Ev("serial_hds", child_name, "", index))
            hd == serial_hds[index]
            chardev_name == usart_chardev_name(index)
            m7 == IF hd = NoChr THEN qemu_chr_new(m6, chardev_name, "null") ELSE m6
            chr == IF hd = NoChr THEN qemu_chr_new_result(chardev_name, "null") ELSE hd
            m8 == qdev_prop_set_chr(m7, usart, chr)
            m9 == cm_object_realize(m8, usart)
        IN  Emit([m9 EXCEPT !.st.usart[index] = usart],
                 Ev("store", child_name, "usart", index))

\* Variant: serial_hds[index] read before the range check.
create_usart_read_first(m, index, capabilities) ==
    LET child_name == usart_child_name(index)
        m1 == cm_object_new(m, child_name, "TYPE_STM32_USART")
        usart == Len(m1.objs)
        m2 == prop_set(m1, usart, "port-index", index)
        m3 == prop_set(m2, usart, "capabilities", capabilities)
        m4 == prop_set(m3, usart, "rcc", m3.st.rcc)
        m5 == prop_set(m4, usart, "nvic", NVIC_PTR)
        m6 == Emit(m5, Ev("serial_hds", child_name, "", index))
    IN  IF index >= max_serial_ports
        THEN hw_error(m6, child_name, "Cannot assign usart")
        ELSE
        LET hd == serial_hds[index]
            chardev_name == usart_chardev_name(index)
            m7 == IF hd = NoChr THEN qemu_chr_new(m6, chardev_name, "null") ELSE m6
            chr == IF hd = NoChr THEN qemu_chr_new_result(chardev_name, "null") ELSE hd
        IN  IF chr = NoChr
            THEN hw_error(m7, child_name, "Can't assign serial port")
            ELSE
            LET m8 == qdev_prop_set_chr(m7, usart, chr)
                m9 == cm_object_realize(m8, usart)
            IN  Emit([m9 EXCEPT !.st.usart[index] = usart],
                     Ev("store", child_name, "usart", index))

create_usart(m, index, capabilities) ==
    LET child_name == usart_child_name(index)
        m1 == cm_object_new(m, child_name, "TYPE_STM32_USART")
        usart == Len(m1.objs)
        m2 == prop_set(m1, usart, "port-index", index)
        m3 == prop_set(m2, usart, "capabilities", capabilities)
        m4 == prop_set(m3, usart, "rcc", m3.st.rcc)
        m5 == prop_set(m4, usart, "nvic", NVIC_PTR)
    IN  IF index >= max_serial_ports
        THEN hw_error(m5, child_name, "Cannot assign usart")
        ELSE
        LET m6 == Emit(m5, Ev("serial_hds", child_name, "", index))
            hd == serial_hds[index]
            chardev_name == usart_chardev_name(index)
            m7 == IF hd = NoChr THEN qemu_chr_new(m6, chardev_name, "null") ELSE m6
            chr == IF hd = NoChr THEN qemu_chr_new_result(chardev_name, "null") ELSE hd
        IN  IF chr = NoChr
            THEN hw_error(m7, child_name, "Can't assign serial port")
            ELSE
            LET m8 == qdev_prop_set_chr(m7, usart, chr)
                m9 == cm_object_realize(m8, usart)
            IN  Emit([m9 EXCEPT !.st.usart[index] = usart],
                     Ev("store", child_name, "usart", index))

(***************************************************************************)
(* The steps of stm32_mcu_realize_callback, in the order of the source.    *)
(***************************************************************************)

\* *capabilities: the descriptor record the pointer refers to.
Deref(m, capabilities) == m.mem

\* Variant: the result of the parent's realize is not looked at.
parent_realize_result_ignored(m) ==
    Emit(m, Ev("parent_realize", "cortexm-mcu", IF parent_ok THEN "ok" ELSE "error", -1))

\* if (!cm_device_parent_realize(dev, errp, TYPE_STM32_MCU)) return;
cm_device_parent_realize(m) ==
    IF parent_ok
    THEN Emit(m, Ev("parent_realize", "cortexm-mcu", "ok", -1))
    ELSE [Emit(m, Ev("parent_realize", "cortexm-mcu", "error", -1))
            EXCEPT !.status = "returned"]

\* Variant: the descriptor bound without the assertion.
bind_capabilities_unchecked(m) ==
    Emit([m EXCEPT !.st.capabilities = m.st.param_capabilities],
         Ev("assert", "capabilities", "skipped", -1))

\* assert(capabilities != NULL); state->capabilities = capabilities;
bind_capabilities(m) ==
    LET capabilities == m.st.param_capabilities
    IN  IF capabilities = NULL
        THEN Abort(Emit(m, Ev("assert", "capabilities", "failed", -1)))
        ELSE Emit([m EXCEPT !.st.capabilities = capabilities],
                  Ev("assert", "capabilities", "ok", -1))

\* switch (capabilities->family)
family_label(family) ==
    CASE family = "STM32_FAMILY_F1" -> "F1"
      [] family = "STM32_FAMILY_F2" -> "F2"
      [] family = "STM32_FAMILY_F3" -> "F3"
      [] family = "STM32_FAMILY_F4" -> "F4"
      [] family = "STM32_FAMILY_L1" -> "L1"
      [] OTHER -> "unknown"

\* Variant: an unrecognized family treated as a fatal error.
log_family_strict(m, capabilities) ==
    IF family_label(Deref(m, capabilities).family) = "unknown"
    THEN hw_error(m, "STM32 Family", "unknown")
    ELSE Emit(m, Ev("qemu_log_mask", "STM32 Family",
                    family_label(Deref(m, capabilities).family), -1))

log_family(m, capabilities) ==
    Emit(m, Ev("qemu_log_mask", "STM32 Family", family_label(Deref(m, capabilities).family), -1))

\* state->container = container_get(OBJECT(dev), "/stm32");
get_container(m) ==
    Emit([m EXCEPT !.st.container = "/stm32"], Ev("container_get", "/stm32", "", -1))

\* Variant: the alias sized in kilobytes instead of bytes.
flash_alias_size_in_kb(m) ==
    LET flash_size == flash_size_kb
        n  == Len(m.regions) + 1
        m1 == Emit([m EXCEPT !.regions = Append(@, [name         |-> "mem-flash-alias",
                                                    owner        |-> "/memory",
                                                    target       |-> "flash_mem",
                                                    alias_offset |-> 0,
                                                    size         |-> flash_size,
                                                    readonly     |-> FALSE,
                                                    mapped       |-> FALSE,
                                                    base         |-> 0])],
                   Ev("memory_region_init_alias", "mem-flash-alias", "flash_mem", n))
        m2 == Emit([m1 EXCEPT !.regions[n].readonly = TRUE],
                   Ev("memory_region_set_readonly", "mem-flash-alias", "true", n))
    IN  Emit([m2 EXCEPT !.regions[n].mapped = TRUE,
                        !.regions[n].base = FLASH_ALIAS_BASE],
             Ev("memory_region_add_subregion", "mem-flash-alias", "system-memory", n))

\* The flash alias: a read-only alias of flash_mem, mapped at 0x08000000.
flash_alias(m) ==
    LET flash_size == flash_size_kb * KB
        n  == Len(m.regions) + 1
        m1 == Emit([m EXCEPT !.regions = Append(@, [name         |-> "mem-flash-alias",
                                                    owner        |-> "/memory",
                                                    target       |-> "flash_mem",
                                                    alias_offset |-> 0,
                                                    size         |-> flash_size,
                                                    readonly     |-> FALSE,
                                                    mapped       |-> FALSE,
                                                    base         |-> 0])],
                   Ev("memory_region_init_alias", "mem-flash-alias", "flash_mem", n))
        m2 == Emit([m1 EXCEPT !.regions[n].readonly = TRUE],
                   Ev("memory_region_set_readonly", "mem-flash-alias", "true", n))
    IN  Emit([m2 EXCEPT !.regions[n].mapped = TRUE,
                        !.regions[n].base = FLASH_ALIAS_BASE],
             Ev("memory_region_add_subregion", "mem-flash-alias", "system-memory", n))

\* if (capabilities->has_periph_bitband) cortexm_bitband_init(...)
periph_bitband(m, capabilities) ==
    IF Deref(m, capabilities).has_periph_bitband
    THEN Emit([m EXCEPT !.bitbands = Append(@, [name   |-> "periph-bitband",
                                                parent |-> m.st.container,
                                                base   |-> PERIPH_BITBAND_BASE])],
              Ev("cortexm_bitband_init", "periph-bitband", "", -1))
    ELSE m

\* Variant: the clock controller built and realized, its reference not kept.
create_rcc_not_stored(m, capabilities) ==
    LET m1 == cm_object_new(m, "rcc", "TYPE_STM32_RCC")
        rcc == Len(m1.objs)
        m2 == prop_set(m1, rcc, "capabilities", capabilities)
        m3 == prop_set(m2, rcc, "hsi-freq-hz", Deref(m, capabilities).hsi_freq_hz)
        m4 == prop_set(m3, rcc, "lsi-freq-hz", Deref(m, capabilities).lsi_freq_hz)
        m5 == prop_set(m4, rcc, "hse-freq-hz", m4.st.hse_freq_hz)
        m6 == prop_set(m5, rcc, "lse-freq-hz", m5.st.lse_freq_hz)
    IN  cm_object_realize(m6, rcc)

\* RCC, named "rcc"
create_rcc(m, capabilities) ==
    LET m1 == cm_object_new(m, "rcc", "TYPE_STM32_RCC")
        rcc == Len(m1.objs)
        m2 == prop_set(m1, rcc, "capabilities", capabilities)
        m3 == prop_set(m2, rcc, "hsi-freq-hz", Deref(m, capabilities).hsi_freq_hz)
        m4 == prop_set(m3, rcc, "lsi-freq-hz", Deref(m, capabilities).lsi_freq_hz)
        m5 == prop_set(m4, rcc, "hse-freq-hz", m4.st.hse_freq_hz)
        m6 == prop_set(m5, rcc, "lse-freq-hz", m5.st.lse_freq_hz)
        m7 == cm_object_realize(m6, rcc)
    IN  Emit([m7 EXCEPT !.st.rcc = rcc], Ev("store", "rcc", "rcc", -1))

\* FLASH, named "flash"
create_flash(m, capabilities) ==
    LET m1 == cm_object_new(m, "flash", "TYPE_STM32_FLASH")
        flash == Len(m1.objs)
        m2 == prop_set(m1, flash, "capabilities", capabilities)
        m3 == cm_object_realize(m2, flash)
    IN  Emit([m3 EXCEPT !.st.flash = flash], Ev("store", "flash", "flash", -1))

\* Variant: the power controller built without looking at has_pwr.
create_pwr_unconditional(m, capabilities) ==
    LET m1 == cm_object_new(m, "pwr", "TYPE_STM32_PWR")
        pwr == Len(m1.objs)
        m2 == prop_set(m1, pwr, "capabilities", capabilities)
        m3 == cm_object_realize(m2, pwr)
    IN  Emit([m3 EXCEPT !.st.pwr = pwr], Ev("store", "pwr", "pwr", -1))

\* if (capabilities->has_pwr) { ... }
create_pwr(m, capabilities) ==
    IF Deref(m, capabilities).has_pwr
    THEN LET m1 == cm_object_new(m, "pwr", "TYPE_STM32_PWR")
             pwr == Len(m1.objs)
             m2 == prop_set(m1, pwr, "capabilities", capabilities)
             m3 == cm_object_realize(m2, pwr)
         IN  Emit([m3 EXCEPT !.st.pwr = pwr], Ev("store", "pwr", "pwr", -1))
    ELSE m

\* The seven "if (capabilities->has_gpiox) create_gpio(...)" statements.
GpioPorts ==
    << [flag |-> "has_gpioa", index |-> STM32_GPIO_PORT_A],
       [flag |-> "has_gpiob", index |-> STM32_GPIO_PORT_B],
       [flag |-> "has_gpioc", index |-> STM32_GPIO_PORT_C],
       [flag |-> "has_gpiod", index |-> STM32_GPIO_PORT_D],
       [flag |-> "has_gpioe", index |-> STM32_GPIO_PORT_E],
       [flag |-> "has_gpiof", index |-> STM32_GPIO_PORT_F],
       [flag |-> "has_gpiog", index |-> STM32_GPIO_PORT_G] >>

\* The six "if (capabilities->has_usartx) create_usart(...)" statements.
UsartPorts ==
    << [flag |-> "has_usart1", index |-> STM32_USART_1],
       [flag |-> "has_usart2", index |-> STM32_USART_2],
       [flag |-> "has_usart3", index |-> STM32_USART_3],
       [flag |-> "has_uart4",  index |-> STM32_UART_4],
       [flag |-> "has_uart5",  index |-> STM32_UART_5],
       [flag |-> "has_usart6", index |-> STM32_USART_6] >>

RECURSIVE create_gpios(_, _, _)
create_gpios(m, capabilities, k) ==
    IF k > Len(GpioPorts) \/ m.status # "run" THEN m
    ELSE create_gpios(IF Deref(m, capabilities)[GpioPorts[k].flag]
                      THEN create_gpio(m, GpioPorts[k].index, capabilities)
                      ELSE m,
                      capabilities, k + 1)

RECURSIVE create_usarts(_, _, _)
create_usarts(m, capabilities, k) ==
    IF k > Len(UsartPorts) \/ m.status # "run" THEN m
    ELSE create_usarts(IF Deref(m, capabilities)[UsartPorts[k].flag]
                       THEN create_usart(m, UsartPorts[k].index, capabilities)
                       ELSE m,
                       capabilities, k + 1)

\* Variant: the serial ports composed before the GPIO ports.
realize_callback_usart_first(m) ==
    LET m1 == cm_device_parent_realize(m)
    IN  IF m1.status # "run" THEN m1 ELSE
        LET m2 == bind_capabilities(m1)
        IN  IF m2.status # "run" THEN m2 ELSE
            LET capabilities == m2.st.capabilities
                m3  == log_family(m2, capabilities)
                m4  == get_container(m3)
                m5  == flash_alias(m4)
                m6  == periph_bitband(m5, capabilities)
                m7  == create_rcc(m6, capabilities)
                m8  == create_flash(m7, capabilities)
                m9  == create_pwr(m8, capabilities)
                m10 == create_usarts(m9, capabilities, 1)
            IN  create_gpios(m10, capabilities, 1)

stm32_mcu_realize_callback(m) ==
    LET m1 == cm_device_parent_realize(m)
    IN  IF m1.status # "run" THEN m1 ELSE
        LET m2 == bind_capabilities(m1)
        IN  IF m2.status # "run" THEN m2 ELSE
            LET capabilities == m2.st.capabilities
                m3  == log_family(m2, capabilities)
                m4  == get_container(m3)
                m5  == flash_alias(m4)
                m6  == periph_bitband(m5, capabilities)
                m7  == create_rcc(m6, capabilities)
                m8  == create_flash(m7, capabilities)
                m9  == create_pwr(m8, capabilities)
                m10 == create_gpios(m9, capabilities, 1)
            IN  create_usarts(m10, capabilities, 1)

(***************************************************************************)
(* stm32_mcu_reset_callback.                                               *)
(***************************************************************************)
cm_device_parent_reset(m) == Emit(m, Ev("parent_reset", "cortexm-mcu", "", -1))

device_reset(m, obj) ==
    Emit([m EXCEPT !.objs[obj].nresets = @ + 1],
         Ev("device_reset", m.objs[obj].name, "", obj))

\* Variant: the GPIO loop drops the reference of the port it has reset.
RECURSIVE reset_gpio_loop_clearing(_, _)
reset_gpio_loop_clearing(m, i) ==
    IF ~(i < STM32_MAX_GPIO) THEN m
    ELSE reset_gpio_loop_clearing(
             IF m.st.gpio[i] # NULL
             THEN [device_reset(m, m.st.gpio[i]) EXCEPT !.st.gpio[i] = NULL]
             ELSE m,
             i + 1)

RECURSIVE reset_gpio_loop(_, _)
reset_gpio_loop(m, i) ==
    IF ~(i < STM32_MAX_GPIO) THEN m
    ELSE reset_gpio_loop(IF m.st.gpio[i] # NULL THEN device_reset(m, m.st.gpio[i]) ELSE m,
                         i + 1)

RECURSIVE reset_usart_loop(_, _)
reset_usart_loop(m, i) ==
    IF ~(i < STM32_MAX_USART) THEN m
    ELSE reset_usart_loop(IF m.st.usart[i] # NULL THEN device_reset(m, m.st.usart[i]) ELSE m,
                          i + 1)

\* Variant: the serial ports reset before the GPIO ports.
reset_callback_usart_first(m) ==
    LET m1 == cm_device_parent_reset(m)
        m2 == IF m1.st.rcc # NULL THEN device_reset(m1, m1.st.rcc) ELSE m1
        m3 == IF m2.st.flash # NULL THEN device_reset(m2, m2.st.flash) ELSE m2
        m4 == reset_usart_loop(m3, 0)
    IN  reset_gpio_loop(m4, 0)

stm32_mcu_reset_callback(m) ==
    LET m1 == cm_device_parent_reset(m)
        m2 == IF m1.st.rcc # NULL THEN device_reset(m1, m1.st.rcc) ELSE m1
        m3 == IF m2.st.flash # NULL THEN device_reset(m2, m2.st.flash) ELSE m2
        m4 == reset_gpio_loop(m3, 0)
    IN  reset_usart_loop(m4, 0)

(***************************************************************************)
(* Configurations: the descriptor, the properties and the host.            *)
(***************************************************************************)
GpioFlags == {GpioPorts[k].flag : k \in 1 .. Len(GpioPorts)}
UsartFlags == {UsartPorts[k].flag : k \in 1 .. Len(UsartPorts)}
PresenceFlags == GpioFlags \cup UsartFlags \cup {"has_pwr", "has_periph_bitband"}

Families == {"STM32_FAMILY_F1", "STM32_FAMILY_F2", "STM32_FAMILY_F3",
             "STM32_FAMILY_F4", "STM32_FAMILY_L1", "STM32_FAMILY_OTHER"}

\* A descriptor of the given family whose true presence flags are `on`.
Descriptor(family, on) ==
    [f \in PresenceFlags |-> f \in on]
        @@ [family |-> family, hsi_freq_hz |-> 16000000, lsi_freq_hz |-> 32000]

FlashImages == {[mul |-> 1, add |-> 0], [mul |-> 3, add |-> 7]}

\* The byte of the canonical flash store (flash_mem) at an offset.
FlashStore(offset) == (offset * flash_image.mul + flash_image.add) % 256

\* A read through an alias region: the byte of its target at alias_offset
\* plus the offset.
memory_region_read(r, offset) ==
    IF r.target = "flash_mem" THEN FlashStore(r.alias_offset + offset) ELSE 0

\* serial_hds[] of a host with `max` ports that supplies streams for `hosted`.
HostStreams(max, hosted) ==
    [i \in 0 .. max - 1 |-> IF i \in hosted THEN HostChr(i) ELSE NoChr]

SerialLabels == {usart_chardev_name(i) : i \in UsartIndex}

\* The instance as object_new() leaves it (zeroed), with its properties set.
NewState(param_capabilities, hse, lse) ==
    [param_capabilities |-> param_capabilities,
     hse_freq_hz        |-> hse,
     lse_freq_hz        |-> lse,
     capabilities       |-> NULL,
     container          |-> "",
     rcc                |-> NULL,
     flash              |-> NULL,
     pwr                |-> NULL,
     gpio               |-> [i \in GpioIndex |-> NULL],
     usart              |-> [i \in UsartIndex |-> NULL]]

InitInstance ==
    /\ pc = "uninit"
    /\ objects = <<>>
    /\ regions = <<>>
    /\ bitbands = <<>>
    /\ chardevs = <<>>
    /\ trace = <<>>
    /\ reset_trace = <<>>
    /\ resets = 0

\* Every combination of the slot flags, on a host that can back every port.
InitSlots ==
    /\ InitInstance
    /\ \E on \in SUBSET (GpioFlags \cup UsartFlags \cup {"has_pwr"}) :
           descriptor = Descriptor("STM32_FAMILY_F4", on)
    /\ state = NewState(CAPS_PTR, 0, 0)
    /\ parent_ok = TRUE
    /\ flash_size_kb = 1
    /\ flash_image \in FlashImages /\ flash_image.add = 0
    /\ max_serial_ports = MaxHostPorts
    /\ serial_hds = HostStreams(max_serial_ports, {})
    /\ chr_unavailable = {}

\* Every combination of the serial flags, on every host.
InitSerial ==
    /\ InitInstance
    /\ \E on \in SUBSET UsartFlags :
           descriptor = Descriptor("STM32_FAMILY_F1", on \cup {"has_gpiob", "has_gpiod"})
    /\ state = NewState(CAPS_PTR, 0, 0)
    /\ parent_ok = TRUE
    /\ flash_size_kb = 1
    /\ flash_image \in FlashImages /\ flash_image.add = 0
    /\ max_serial_ports \in 0 .. MaxHostPorts
    /\ \E hosted \in {{}, {0}, {1, 3}, UsartIndex} :
           serial_hds = HostStreams(max_serial_ports, hosted)
    /\ chr_unavailable \in {{}, {"serial1"}, SerialLabels}

\* Every family, property value, flash size and base outcome, for a few
\* flag combinations.
InitMisc ==
    /\ InitInstance
    /\ \E family \in Families,
          on \in {{}, {"has_gpioa", "has_gpiob"},
                  {"has_gpioc", "has_usart1", "has_usart2", "has_pwr"}},
          bb \in {{}, {"has_periph_bitband"}} :
           descriptor = Descriptor(family, on \cup bb)
    /\ \E p \in {NULL, CAPS_PTR}, hse \in {0, 8000000}, lse \in {0, 32768} :
           state = NewState(p, hse, lse)
    /\ parent_ok \in BOOLEAN
    /\ flash_size_kb \in 1 .. MaxFlashKb
    /\ flash_image \in FlashImages
    /\ max_serial_ports = 4
    /\ serial_hds = HostStreams(max_serial_ports, {})
    /\ chr_unavailable = {}

Init == InitSerial \/ InitMisc

(***************************************************************************)
(* Actions: one per callback.                                              *)
(***************************************************************************)
Machine(log) ==
    [status   |-> "run",
     st       |-> state,
     objs     |-> objects,
     regions  |-> regions,
     bitbands |-> bitbands,
     chrs     |-> chardevs,
     mem      |-> descriptor,
     log      |-> log]

\* The device core calls dc->realize on an instance that is not realized
\* yet, and dc->reset on a realized one.
DeviceUnrealized == pc = "uninit"

\* Variant: a reset is also delivered to an instance not realized yet.
DeviceRealizedOrNew == pc \in {"uninit", "composed"}

DeviceRealized == pc = "composed"

\* dc->realize: runs once, on the instance as configured.
Realize ==
    /\ DeviceUnrealized
    /\ LET m == stm32_mcu_realize_callback(Machine(<<>>))
       IN  /\ pc' = CASE m.status = "run" -> "composed"
                      [] m.status = "returned" -> "failed"
                      [] OTHER -> "aborted"
           /\ state' = m.st
           /\ objects' = m.objs
           /\ regions' = m.regions
           /\ bitbands' = m.bitbands
           /\ chardevs' = m.chrs
           /\ trace' = m.log
    /\ UNCHANGED <<reset_trace, resets, host>>

\* dc->reset: a reset event on the realized device.
Reset ==
    /\ DeviceRealized
    /\ resets < MaxResets
    /\ LET m == stm32_mcu_reset_callback(Machine(<<>>))
       IN  /\ state' = m.st
           /\ objects' = m.objs
           /\ regions' = m.regions
           /\ bitbands' = m.bitbands
           /\ chardevs' = m.chrs
           /\ reset_trace' = m.log
    /\ resets' = resets + 1
    /\ UNCHANGED <<pc, trace, host>>

Next == Realize \/ Reset

Spec == Init /\ [][Next]_vars

\* The same device, started from every combination of the slot flags.
SpecSlots == InitSlots /\ [][Next]_vars

\* The same device, started from the configurations that vary the flash.
SpecMisc == InitMisc /\ [][Next]_vars

(***************************************************************************)
(* Vocabulary of the properties.                                           *)
(***************************************************************************)
Composed == pc = "composed"
Populated(ref) == ref # NULL

\* The descriptor flag of each slot, by slot index.
GpioFlagOf == [i \in GpioIndex |->
                 <<"has_gpioa", "has_gpiob", "has_gpioc", "has_gpiod",
                   "has_gpioe", "has_gpiof", "has_gpiog">>[i + 1]]
UsartFlagOf == [j \in UsartIndex |->
                  <<"has_usart1", "has_usart2", "has_usart3",
                    "has_uart4", "has_uart5", "has_usart6">>[j + 1]]

\* The references the instance holds, and the children it constructed.
HeldRefs == {state.rcc, state.flash, state.pwr}
                \cup {state.gpio[i] : i \in GpioIndex}
                \cup {state.usart[j] : j \in UsartIndex}
Children == 1 .. Len(objects)

\* The positions of the log at which an event satisfies a condition.
TraceOps(log) == {log[i].op : i \in 1 .. Len(log)}

(***************************************************************************)
(* C1: after a composition that completes, gpio[i] is non-null iff the     *)
(* descriptor's flag for GPIO port i is true, usart[j] is non-null iff the *)
(* flag for serial port j is true, pwr is non-null iff has_pwr is true,    *)
(* and rcc and flash are always non-null; every populated field refers to  *)
(* a realized child of the matching type.                                  *)
(***************************************************************************)
SlotsMatchFlags ==
    Composed =>
        /\ \A i \in GpioIndex :
               /\ Populated(state.gpio[i]) <=> descriptor[GpioFlagOf[i]]
               /\ Populated(state.gpio[i]) =>
                      /\ state.gpio[i] \in Children
                      /\ objects[state.gpio[i]].type = "TYPE_STM32_GPIO"
                      /\ objects[state.gpio[i]].props["port-index"] = i
        /\ \A j \in UsartIndex :
               /\ Populated(state.usart[j]) <=> descriptor[UsartFlagOf[j]]
               /\ Populated(state.usart[j]) =>
                      /\ state.usart[j] \in Children
                      /\ objects[state.usart[j]].type = "TYPE_STM32_USART"
                      /\ objects[state.usart[j]].props["port-index"] = j
        /\ Populated(state.pwr) <=> descriptor.has_pwr
        /\ Populated(state.pwr) => objects[state.pwr].type = "TYPE_STM32_PWR"
        /\ Populated(state.rcc) /\ objects[state.rcc].type = "TYPE_STM32_RCC"
        /\ Populated(state.flash) /\ objects[state.flash].type = "TYPE_STM32_FLASH"
        /\ Cardinality(HeldRefs \ {NULL}) = Len(objects)

SlotsMatchFlagsWitness ==
    /\ Composed
    /\ descriptor.has_gpioa /\ ~descriptor.has_gpiob /\ descriptor.has_gpiog
    /\ ~descriptor.has_usart1 /\ descriptor.has_uart4 /\ descriptor.has_usart6
    /\ ~descriptor.has_pwr
    /\ Populated(state.gpio[6]) /\ Populated(state.usart[5])

(***************************************************************************)
(* C2: every reset event forwards the reset to the base substrate first,   *)
(* then the clock controller, then the flash controller, then the          *)
(* populated GPIO slots in ascending index order, then the populated       *)
(* serial slots in ascending index order; unpopulated slots are skipped    *)
(* and the callback never fails, however many resets are delivered.        *)
(***************************************************************************)
\* The place of a reset call in the claimed order (0 for a call that is
\* none of the claimed ones).
ResetPlace(e) ==
    CASE e.op = "parent_reset" -> 1
      [] e.op = "device_reset" /\ e.idx = state.rcc -> 2
      [] e.op = "device_reset" /\ e.idx = state.flash -> 3
      [] e.op = "device_reset" /\ \E i \in GpioIndex : e.idx = state.gpio[i] ->
             4 + (CHOOSE i \in GpioIndex : e.idx = state.gpio[i])
      [] e.op = "device_reset" /\ \E j \in UsartIndex : e.idx = state.usart[j] ->
             4 + STM32_MAX_GPIO + (CHOOSE j \in UsartIndex : e.idx = state.usart[j])
      [] OTHER -> 0

ResetPlaces == {ResetPlace(reset_trace[n]) : n \in 1 .. Len(reset_trace)}

ResetOrder ==
    resets >= 1 =>
        /\ pc = "composed"
        /\ Len(reset_trace) >= 1 /\ reset_trace[1].op = "parent_reset"
        /\ \A n \in 1 .. Len(reset_trace) : ResetPlace(reset_trace[n]) # 0
        /\ \A a, b \in 1 .. Len(reset_trace) :
               a < b => ResetPlace(reset_trace[a]) < ResetPlace(reset_trace[b])
        /\ {2, 3} \subseteq ResetPlaces
        /\ \A i \in GpioIndex :
               Populated(state.gpio[i]) <=> (4 + i) \in ResetPlaces
        /\ \A j \in UsartIndex :
               Populated(state.usart[j]) <=> (4 + STM32_MAX_GPIO + j) \in ResetPlaces

ResetOrderWitness ==
    /\ resets >= 2
    /\ Populated(state.gpio[1]) /\ ~Populated(state.gpio[2]) /\ Populated(state.gpio[3])
    /\ Populated(state.usart[0]) /\ ~Populated(state.usart[1]) /\ Populated(state.usart[2])
    /\ Len(reset_trace) = 7

(***************************************************************************)
(* C3: each reset event reaches every live child exactly once: after n     *)
(* reset events every child that composition constructed (clock, flash,    *)
(* power controller, GPIO ports, serial ports) has been reset n times.     *)
(***************************************************************************)
ResetReachesEveryChildOnce ==
    Composed => \A c \in Children : objects[c].nresets = resets

(***************************************************************************)
(* C4: composing a serial port at index >= MAX_SERIAL_PORTS always fails   *)
(* fatally.  As claimed: the fatal error comes before the child node for   *)
(* that port is allocated, named or given any injected property.           *)
(***************************************************************************)
\* The positions of the realize log where the range check of create_usart
\* reports its fatal error.
RangeErrors ==
    {n \in 1 .. Len(trace) :
        trace[n].op = "hw_error" /\ trace[n].arg = "Cannot assign usart"}

\* A serial flag is set for a port the host cannot back.
SerialPortOutOfRange ==
    \E j \in UsartIndex : descriptor[UsartFlagOf[j]] /\ j >= max_serial_ports

\* The realize callback ran past the base step and the descriptor check.
PastDescriptorCheck ==
    pc # "uninit" /\ parent_ok /\ state.param_capabilities # NULL

RangeErrorBeforeAllocation ==
    /\ PastDescriptorCheck /\ SerialPortOutOfRange => pc = "aborted"
    /\ \A n \in RangeErrors :
           /\ pc = "aborted" /\ n = Len(trace)
           /\ \A k \in 1 .. n - 1 :
                  trace[k].who = trace[n].who => trace[k].op \notin {"new", "set"}
           /\ \A c \in Children : objects[c].name # trace[n].who

(***************************************************************************)
(* C4 as amended: composing a serial port at index >= MAX_SERIAL_PORTS     *)
(* always fails fatally, after the child node for that port has been       *)
(* allocated, named and given its port-index, capabilities, rcc and nvic   *)
(* properties, and before the host's stream table is read, a backing       *)
(* stream is created or bound, the child is realized or it is stored in    *)
(* its usart slot.                                                         *)
(***************************************************************************)
RangeErrorBeforeBinding ==
    /\ PastDescriptorCheck /\ SerialPortOutOfRange => pc = "aborted"
    /\ \A n \in RangeErrors :
           /\ pc = "aborted" /\ n = Len(trace)
           /\ \E c \in Children :
                  /\ objects[c].name = trace[n].who
                  /\ objects[c].type = "TYPE_STM32_USART"
                  /\ objects[c].props["port-index"] >= max_serial_ports
                  /\ DOMAIN objects[c].props = {"port-index", "capabilities", "rcc", "nvic"}
                  /\ objects[c].chardev = NoChr
                  /\ ~objects[c].realized
                  /\ c \notin HeldRefs
                  /\ state.usart[objects[c].props["port-index"]] = NULL
                  /\ \A k \in 1 .. n - 1 :
                         /\ trace[k].who = trace[n].who =>
                                \/ trace[k].op = "new"
                                \/ /\ trace[k].op = "set"
                                   /\ trace[k].arg \in {"port-index", "capabilities",
                                                        "rcc", "nvic"}
                         /\ trace[k].op = "qemu_chr_new" =>
                                trace[k].who # usart_chardev_name(objects[c].props["port-index"])

RangeErrorWitness ==
    /\ RangeErrors # {}
    /\ max_serial_ports = 2
    /\ descriptor.has_usart1 /\ descriptor.has_usart3
    /\ Populated(state.usart[0])

(***************************************************************************)
(* C5 as claimed: whenever a peripheral factory fails fatally, composition *)
(* aborts and zero children of any kind (clock, flash, power, GPIO,        *)
(* serial) exist afterward.                                                *)
(***************************************************************************)
FactoryErrors == {n \in 1 .. Len(trace) : trace[n].op = "hw_error"}

NoChildrenAfterFatalFailure ==
    FactoryErrors # {} =>
        /\ pc = "aborted"
        /\ objects = <<>>
        /\ HeldRefs = {NULL}

(***************************************************************************)
(* C5 as amended: whenever a peripheral factory fails fatally, composition *)
(* ends there and never completes: the fatal error is the last step, the   *)
(* failing child is never bound to a stream, realized or stored in a slot; *)
(* the children constructed before the failure (always the clock and flash *)
(* controllers) are not torn down: each is realized and still referenced   *)
(* by the instance.                                                        *)
(***************************************************************************)
FatalFailureEndsComposition ==
    FactoryErrors # {} =>
        /\ pc = "aborted"
        /\ FactoryErrors = {Len(trace)}
        /\ Populated(state.rcc) /\ Populated(state.flash)
        /\ \E failed \in Children :
               /\ objects[failed].name = trace[Len(trace)].who
               /\ failed = Len(objects)
               /\ ~objects[failed].realized
               /\ objects[failed].chardev = NoChr
               /\ failed \notin HeldRefs
               /\ \A c \in Children \ {failed} :
                      objects[c].realized /\ c \in HeldRefs

FatalFailureWitness ==
    /\ FactoryErrors # {}
    /\ max_serial_ports = 0
    /\ descriptor.has_usart1
    /\ Len(objects) >= 3

(***************************************************************************)
(* C6: composing with a null descriptor always fails fatally at the        *)
(* descriptor check, before anything is constructed: no descriptor bound,  *)
(* no namespace container, no alias or bit-band region, no clock, flash,   *)
(* power, GPIO or serial child.                                            *)
(***************************************************************************)
NullDescriptorFailsFirst ==
    /\ pc # "uninit" /\ parent_ok /\ state.param_capabilities = NULL => pc = "aborted"
    /\ pc = "aborted" /\ state.param_capabilities = NULL =>
           /\ trace[Len(trace)] = Ev("assert", "capabilities", "failed", -1)
           /\ TraceOps(trace) = {"parent_realize", "assert"}
           /\ state.capabilities = NULL
           /\ state.container = ""
           /\ regions = <<>> /\ bitbands = <<>>
           /\ objects = <<>> /\ chardevs = <<>>
           /\ HeldRefs = {NULL}

NullDescriptorWitness ==
    /\ pc = "aborted"
    /\ state.param_capabilities = NULL
    /\ descriptor.has_gpioa /\ descriptor.has_periph_bitband

(***************************************************************************)
(* C7: when the parent's realize fails, the realize callback returns at    *)
(* once: the instance is left failed, every MCU state field, the children, *)
(* the regions and the streams are as they were, and nothing but the       *)
(* parent call was made.                                                   *)
(***************************************************************************)
BaseFailureDoesNothing ==
    [][pc = "uninit" /\ ~parent_ok =>
           /\ pc' = "failed"
           /\ UNCHANGED <<state, objects, regions, bitbands, chardevs>>
           /\ trace' = <<Ev("parent_realize", "cortexm-mcu", "error", -1)>>]_vars

BaseFailureWitness ==
    /\ pc = "failed"
    /\ state.param_capabilities # NULL
    /\ descriptor.has_gpioa /\ descriptor.has_periph_bitband
    /\ objects = <<>>

(***************************************************************************)
(* C8: after a successful composition, and after any number of resets,     *)
(* exactly one flash alias region exists; its size is the flash size in    *)
(* bytes, it is mapped at 0x08000000, it is read-only, and a read at any   *)
(* offset inside it gives the byte of the canonical flash store at that    *)
(* offset; it was created once.                                            *)
(***************************************************************************)
AliasCreations ==
    {n \in 1 .. Len(trace) : trace[n].op = "memory_region_init_alias"}

FlashAliasRegion ==
    Composed =>
        /\ Len(regions) = 1
        /\ Cardinality(AliasCreations) = 1
        /\ regions[1].name = "mem-flash-alias"
        /\ regions[1].size = flash_size_kb * 1024
        /\ regions[1].mapped /\ regions[1].base = 134217728
        /\ regions[1].readonly
        /\ \A k \in 0 .. regions[1].size - 1 :
               memory_region_read(regions[1], k) = FlashStore(k)

FlashAliasWitness ==
    /\ Composed
    /\ resets >= 2
    /\ flash_size_kb = 2
    /\ flash_image.add # 0
    /\ Len(regions) = 1

(***************************************************************************)
(* C9: the realize callback performs its steps in one fixed order: parent  *)
(* realize, descriptor check, namespace container, flash alias (always),   *)
(* peripheral bit-band (if declared), clock controller, flash controller,  *)
(* power controller (if declared), the GPIO ports A to G, then the serial  *)
(* ports USART1, USART2, USART3, UART4, UART5, USART6; no call of a later  *)
(* step precedes a call of an earlier one.                                 *)
(***************************************************************************)
\* The step a logged call belongs to.
PortStep(kind, index) == kind \o FormatInt(index)

StepOf(e) ==
    CASE e.op = "parent_realize" -> "base"
      [] e.op \in {"assert", "qemu_log_mask"} -> "descriptor"
      [] e.op = "container_get" -> "container"
      [] e.op \in {"memory_region_init_alias", "memory_region_set_readonly",
                   "memory_region_add_subregion"} -> "alias"
      [] e.op = "cortexm_bitband_init" -> "bitband"
      [] e.op = "store" /\ e.arg \in {"gpio", "usart"} -> PortStep(e.arg, e.idx)
      [] e.op = "store" -> e.arg
      [] e.op = "serial_hds" -> PortStep("usart", e.idx)
      [] e.op = "qemu_chr_new" ->
             PortStep("usart", CHOOSE j \in UsartIndex : e.who = usart_chardev_name(j))
      [] e.op = "hw_error" ->
             PortStep("usart", objects[Len(objects)].props["port-index"])
      [] objects[e.idx].type = "TYPE_STM32_GPIO" ->
             PortStep("gpio", objects[e.idx].props["port-index"])
      [] objects[e.idx].type = "TYPE_STM32_USART" ->
             PortStep("usart", objects[e.idx].props["port-index"])
      [] OTHER -> objects[e.idx].name

CompositionOrder ==
    <<"base", "descriptor", "container", "alias", "bitband", "rcc", "flash", "pwr",
      "gpio0", "gpio1", "gpio2", "gpio3", "gpio4", "gpio5", "gpio6",
      "usart0", "usart1", "usart2", "usart3", "usart4", "usart5">>

\* The place of a call's step in the claimed order (0 for a call of no
\* claimed step).
StepPlace(e) ==
    LET step == StepOf(e)
    IN  IF \E p \in 1 .. Len(CompositionOrder) : CompositionOrder[p] = step
        THEN CHOOSE p \in 1 .. Len(CompositionOrder) : CompositionOrder[p] = step
        ELSE 0

StepsDone == {StepOf(trace[n]) : n \in 1 .. Len(trace)}

CompositionInOrder ==
    /\ \A n \in 1 .. Len(trace) : StepPlace(trace[n]) # 0
    /\ LET place == [n \in 1 .. Len(trace) |-> StepPlace(trace[n])]
       IN  \A n \in 1 .. Len(trace) - 1 : place[n] <= place[n + 1]
    /\ Composed =>
           /\ {"base", "descriptor", "container", "alias", "rcc", "flash"} \subseteq StepsDone
           /\ "bitband" \in StepsDone <=> descriptor.has_periph_bitband
           /\ "pwr" \in StepsDone <=> descriptor.has_pwr
           /\ \A i \in GpioIndex :
                  PortStep("gpio", i) \in StepsDone <=> descriptor[GpioFlagOf[i]]
           /\ \A j \in UsartIndex :
                  PortStep("usart", j) \in StepsDone <=> descriptor[UsartFlagOf[j]]

CompositionInOrderWitness ==
    /\ Composed
    /\ descriptor.has_periph_bitband /\ descriptor.has_pwr
    /\ descriptor.has_gpioc /\ descriptor.has_usart1 /\ descriptor.has_usart2
    /\ Len(trace) > 30

(***************************************************************************)
(* C10 as claimed: the GPIO child at port index i is named gpio[a] to      *)
(* gpio[g]; the serial child at index j is named usart[j+1] for USART1,    *)
(* USART2, USART3 and USART6, and uart[4], uart[5] for ports 4 and 5.      *)
(***************************************************************************)
GpioNames == <<"gpio[a]", "gpio[b]", "gpio[c]", "gpio[d]", "gpio[e]", "gpio[f]", "gpio[g]">>
SerialNamesClaimed ==
    <<"usart[1]", "usart[2]", "usart[3]", "uart[4]", "uart[5]", "usart[6]">>
SerialNames ==
    <<"usart[1]", "usart[2]", "usart[3]", "usart[4]", "usart[5]", "usart[6]">>

\* The children are named by their index as the given tables say, under the
\* device's container.
NamedBy(gpioNames, serialNames) ==
    /\ \A i \in GpioIndex :
           Populated(state.gpio[i]) =>
               /\ objects[state.gpio[i]].name = gpioNames[i + 1]
               /\ objects[state.gpio[i]].parent = "/stm32"
    /\ \A j \in UsartIndex :
           Populated(state.usart[j]) =>
               /\ objects[state.usart[j]].name = serialNames[j + 1]
               /\ objects[state.usart[j]].parent = "/stm32"

ChildNamesWithUartVariant == NamedBy(GpioNames, SerialNamesClaimed)

(***************************************************************************)
(* C10 as amended: the GPIO child at port index i is named gpio[a] to      *)
(* gpio[g], and the serial child at index j is named usart[j+1] for all    *)
(* six ports, UART4 and UART5 included (usart[4], usart[5]).               *)
(***************************************************************************)
ChildNames == NamedBy(GpioNames, SerialNames)

ChildNamesWitness ==
    /\ Composed
    /\ Populated(state.gpio[1]) /\ Populated(state.gpio[3])
    /\ Populated(state.usart[0]) /\ Populated(state.usart[3])
    /\ Populated(state.usart[4]) /\ Populated(state.usart[5])

(***************************************************************************)
(* C11: a reset only forwards the signal: the reset callback leaves every  *)
(* child reference (rcc, flash, pwr, every gpio and usart slot), the bound *)
(* descriptor, the container and the configured clock frequencies          *)
(* unchanged, creates and removes no child, region or stream, and changes  *)
(* nothing of a child but its reset count.                                 *)
(***************************************************************************)
\* A child as it is apart from the resets it has received.
Unreset(child) == [child EXCEPT !.nresets = 0]

ResetOnlyForwards ==
    [][resets' # resets =>
           /\ state' = state
           /\ Len(objects') = Len(objects)
           /\ \A c \in Children : Unreset(objects'[c]) = Unreset(objects[c])
           /\ UNCHANGED <<regions, bitbands, chardevs, descriptor>>]_vars

ResetOnlyForwardsWitness ==
    /\ Composed
    /\ resets >= 2
    /\ state.hse_freq_hz # 0 /\ state.lse_freq_hz # 0
    /\ Populated(state.pwr) /\ Populated(state.gpio[2])
    /\ Populated(state.usart[0]) /\ Populated(state.usart[1])

(***************************************************************************)
(* C12: the lifecycle of an instance is uninitialized, then composed, then *)
(* reset any number of times: the instance leaves the uninitialized state  *)
(* once and never returns to it, the realize callback runs only on an      *)
(* uninitialized instance, and a reset is delivered only to a composed     *)
(* instance, which stays composed.                                         *)
(***************************************************************************)
Lifecycle ==
    [][/\ pc' # pc => pc = "uninit" /\ pc' \in {"composed", "failed", "aborted"}
       /\ trace' # trace => pc = "uninit" /\ pc' # "uninit"
       /\ resets' # resets =>
              pc = "composed" /\ pc' = "composed" /\ resets' = resets + 1]_vars

LifecycleWitness ==
    /\ Composed
    /\ resets >= 2
    /\ Len(trace) > 0 /\ Len(reset_trace) > 0

(***************************************************************************)
(* C13: the serial factory resolves the backing stream by index: a serial  *)
(* child at index j < MAX_SERIAL_PORTS is bound to the host's stream       *)
(* serial_hds[j] when there is one, and otherwise to a new "null" stream   *)
(* named "serial<j>"; a discard stream is created only for a port the      *)
(* host supplies no stream for.                                            *)
(***************************************************************************)
DiscardLabels == <<"serial0", "serial1", "serial2", "serial3", "serial4", "serial5">>

HostSupplies(j) == j < max_serial_ports /\ serial_hds[j].kind = "host"

\* The serial indexes a discard stream may be created for.
DiscardIndexes ==
    {j \in UsartIndex :
        j < max_serial_ports /\ descriptor[UsartFlagOf[j]] /\ ~HostSupplies(j)}

StreamResolvedByIndex ==
    /\ \A j \in UsartIndex :
           Populated(state.usart[j]) =>
               /\ j < max_serial_ports
               /\ objects[state.usart[j]].chardev =
                      IF HostSupplies(j)
                      THEN serial_hds[j]
                      ELSE [kind |-> "null", label |-> DiscardLabels[j + 1]]
               /\ HostSupplies(j) =>
                      \A n \in 1 .. Len(chardevs) :
                          chardevs[n].label # DiscardLabels[j + 1]
    /\ \A n \in 1 .. Len(chardevs) :
           /\ chardevs[n].kind = "null"
           /\ \E j \in DiscardIndexes : chardevs[n].label = DiscardLabels[j + 1]
    /\ \A n \in 1 .. Len(trace) :
           trace[n].op = "qemu_chr_new" =>
               /\ trace[n].arg = "null"
               /\ \E j \in DiscardIndexes : trace[n].who = DiscardLabels[j + 1]

StreamResolvedWitness ==
    /\ Composed
    /\ Populated(state.usart[0]) /\ Populated(state.usart[1])
    /\ objects[state.usart[0]].chardev = [kind |-> "null", label |-> "serial0"]
    /\ objects[state.usart[1]].chardev.kind = "host"
    /\ Len(chardevs) = 1

(***************************************************************************)
(* C14: no child is handed a dangling clock reference: whenever            *)
(* create_gpio or create_usart injects the "rcc" property, the value is    *)
(* state->rcc, it is non-null, and it refers to the clock controller that  *)
(* the same composition has already constructed, realized and stored.      *)
(***************************************************************************)
PortTypes == {"TYPE_STM32_GPIO", "TYPE_STM32_USART"}

\* The positions of the realize log where a port child is given "rcc".
ClockInjections ==
    {n \in 1 .. Len(trace) :
        /\ trace[n].op = "set" /\ trace[n].arg = "rcc"
        /\ objects[trace[n].idx].type \in PortTypes}

NoDanglingClockRef ==
    /\ \A c \in Children :
           objects[c].type \in PortTypes =>
               \E n \in ClockInjections : trace[n].idx = c
    /\ \A n \in ClockInjections :
           LET ref == objects[trace[n].idx].props["rcc"]
           IN  /\ ref # NULL
               /\ ref = state.rcc
               /\ ref \in Children
               /\ objects[ref].type = "TYPE_STM32_RCC"
               /\ objects[ref].realized
               /\ \E a, b \in 1 .. n - 1 :
                      /\ a < b
                      /\ trace[a].op = "realize" /\ trace[a].idx = ref
                      /\ trace[b].op = "store" /\ trace[b].arg = "rcc"

NoDanglingClockRefWitness ==
    /\ Composed
    /\ Cardinality(ClockInjections) >= 4
    /\ Populated(state.gpio[1]) /\ Populated(state.usart[2])

(***************************************************************************)
(* C15: for every child the composer builds (clock, flash, power, GPIO,    *)
(* serial) the order is allocate, inject properties and dependencies,      *)
(* realize, store the reference: each child is allocated once, realized    *)
(* only after all of its injections, stored only after it is realized,     *)
(* and a field or slot never holds a child that is not realized.           *)
(***************************************************************************)
\* The properties and dependencies injected into a child of each type.
InjectionsOf(type) ==
    CASE type = "TYPE_STM32_RCC" ->
             {"capabilities", "hsi-freq-hz", "lsi-freq-hz", "hse-freq-hz", "lse-freq-hz"}
      [] type = "TYPE_STM32_FLASH" -> {"capabilities"}
      [] type = "TYPE_STM32_PWR" -> {"capabilities"}
      [] type = "TYPE_STM32_GPIO" -> {"port-index", "capabilities", "rcc"}
      [] type = "TYPE_STM32_USART" ->
             {"port-index", "capabilities", "rcc", "nvic", "chardev"}
      [] OTHER -> {}

\* The positions of the realize log where a child is allocated, injected,
\* realized and stored.
CallsOn(op, c) == {n \in 1 .. Len(trace) : trace[n].op = op /\ trace[n].idx = c}
StoresOf(c) ==
    {n \in 1 .. Len(trace) : trace[n].op = "store" /\ trace[n].who = objects[c].name}

ChildBuildOrder ==
    /\ \A c \in Children :
           LET news     == CallsOn("new", c)
               sets     == CallsOn("set", c)
               realizes == CallsOn("realize", c)
               stores   == StoresOf(c)
           IN  /\ Cardinality(news) = 1
               /\ Cardinality(realizes) <= 1 /\ Cardinality(stores) <= 1
               /\ \A a \in news, s \in sets : a < s
               /\ \A s \in sets, r \in realizes : s < r
               /\ realizes # {} =>
                      {trace[s].arg : s \in sets} = InjectionsOf(objects[c].type)
               /\ stores # {} => realizes # {}
               /\ \A r \in realizes, t \in stores : r < t
               /\ c \in HeldRefs <=> stores # {}
               /\ objects[c].realized <=> realizes # {}
    /\ \A ref \in HeldRefs \ {NULL} : ref \in Children /\ objects[ref].realized

ChildBuildOrderWitness ==
    /\ Composed
    /\ Populated(state.pwr) /\ Populated(state.gpio[2])
    /\ Populated(state.usart[0]) /\ Populated(state.usart[1])
    /\ \A c \in Children : objects[c].realized

(***************************************************************************)
(* C16: an unrecognized chip family is non-fatal and affects only the      *)
(* logged label: realizing the same instance with a descriptor that        *)
(* differs only in the family field (F1, F2, F3, F4, L1 or another value)  *)
(* succeeds or fails identically, and gives the same children, the same    *)
(* alias region and the same construction order.                           *)
(***************************************************************************)
\* The realize callback run from the current state with the family field of
\* the descriptor replaced.
RealizeWithFamily(family) ==
    stm32_mcu_realize_callback([Machine(<<>>) EXCEPT !.mem.family = family])

\* Two realize logs are the same but for the label of the family message.
SameButLabel(log1, log2) ==
    /\ Len(log1) = Len(log2)
    /\ \A n \in 1 .. Len(log1) :
           \/ log1[n] = log2[n]
           \/ /\ log1[n].op = "qemu_log_mask" /\ log2[n].op = "qemu_log_mask"
              /\ log1[n].who = log2[n].who

FamilyOnlyLabels ==
    [][pc = "uninit" /\ pc' # "uninit" =>
           \A family \in Families :
               LET m == RealizeWithFamily(family)
               IN  /\ pc' = CASE m.status = "run" -> "composed"
                              [] m.status = "returned" -> "failed"
                              [] OTHER -> "aborted"
                   /\ m.st = state'
                   /\ m.objs = objects'
                   /\ m.regions = regions'
                   /\ m.bitbands = bitbands'
                   /\ m.chrs = chardevs'
                   /\ SameButLabel(m.log, trace')]_vars

FamilyOnlyLabelsWitness ==
    /\ Composed
    /\ descriptor.family = "STM32_FAMILY_OTHER"
    /\ \E n \in 1 .. Len(trace) :
           trace[n].op = "qemu_log_mask" /\ trace[n].arg = "unknown"
    /\ Populated(state.usart[0]) /\ Populated(state.gpio[2])
    /\ Len(regions) > 0

(***************************************************************************)
(* C17: failure to obtain even a discard backing stream is fatal: when the *)
(* host supplies no stream for a serial index and the discard stream       *)
(* cannot be created, create_usart reports a fatal error and that serial   *)
(* child is never bound to a stream, never realized and never stored in    *)
(* its usart slot.                                                         *)
(***************************************************************************)
StreamErrors ==
    {n \in 1 .. Len(trace) :
        trace[n].op = "hw_error" /\ trace[n].arg = "Can't assign serial port"}

\* The host backs port j with no stream and no discard stream can be made.
DiscardStreamUnavailable(j) ==
    j \in DiscardIndexes /\ DiscardLabels[j + 1] \in chr_unavailable

SerialChildren == {c \in Children : objects[c].type = "TYPE_STM32_USART"}

DiscardFailureFatal ==
    /\ PastDescriptorCheck /\ (\E j \in UsartIndex : DiscardStreamUnavailable(j))
           => pc = "aborted"
    /\ \A c \in SerialChildren :
           LET j == objects[c].props["port-index"]
           IN  DiscardStreamUnavailable(j) =>
                   /\ pc = "aborted"
                   /\ trace[Len(trace)] =
                          Ev("hw_error", objects[c].name, "Can't assign serial port", -1)
                   /\ objects[c].chardev = NoChr
                   /\ ~objects[c].realized
                   /\ c \notin HeldRefs
                   /\ state.usart[j] = NULL
                   /\ \A n \in 1 .. Len(trace) :
                          /\ trace[n].idx = c =>
                                 /\ trace[n].op # "realize"
                                 /\ ~(trace[n].op = "set" /\ trace[n].arg = "chardev")
                          /\ trace[n].who = objects[c].name => trace[n].op # "store"
    /\ \A n \in StreamErrors :
           /\ n = Len(trace) /\ n > 1
           /\ trace[n - 1].op = "qemu_chr_new"
           /\ trace[n - 1].who \in chr_unavailable
           /\ \E c \in SerialChildren :
                  /\ objects[c].name = trace[n].who
                  /\ DiscardStreamUnavailable(objects[c].props["port-index"])
                  /\ trace[n - 1].who = DiscardLabels[objects[c].props["port-index"] + 1]

DiscardFailureWitness ==
    /\ StreamErrors # {}
    /\ chr_unavailable = {"serial1"}
    /\ Populated(state.usart[0])
    /\ state.usart[1] = NULL

(***************************************************************************)
(* C18: the host backing-stream table is never read out of bounds: in      *)
(* every execution of create_usart the range check index <                 *)
(* MAX_SERIAL_PORTS comes before the read of serial_hds[index], so         *)
(* serial_hds is only indexed with 0 <= index < MAX_SERIAL_PORTS, for      *)
(* every descriptor and every value of MAX_SERIAL_PORTS.                   *)
(***************************************************************************)
TableReads == {n \in 1 .. Len(trace) : trace[n].op = "serial_hds"}

TableReadInBounds ==
    /\ \A n \in TableReads :
           /\ 0 <= trace[n].idx /\ trace[n].idx < max_serial_ports
           /\ trace[n].idx \in DOMAIN serial_hds
    /\ \A n \in RangeErrors, k \in TableReads : trace[k].who # trace[n].who
    /\ \A c \in SerialChildren :
           LET reads == {n \in TableReads : trace[n].who = objects[c].name}
           IN  IF objects[c].props["port-index"] < max_serial_ports
               THEN /\ Cardinality(reads) = 1
                    /\ \A n \in reads : trace[n].idx = objects[c].props["port-index"]
               ELSE reads = {}

TableReadWitness ==
    /\ RangeErrors # {}
    /\ TableReads # {}
    /\ max_serial_ports > 0

====
